---- MODULE Spec2Model ----
(***************************************************************************)
(* Strategy abstraction and registry of robusta_krr                        *)
(* (robusta_krr/core/abstract/strategies.py).                              *)
(*                                                                         *)
(* Two components, each with its own specification:                        *)
(*   Spec          the strategy registry: the classes loaded in the        *)
(*                 interpreter, BaseStrategy.get_all / find /              *)
(*                 get_settings_type;                                      *)
(*   SettingsSpec  the StrategySettings schema: construction with          *)
(*                 validation, and attribute assignment.                   *)
(***************************************************************************)
EXTENDS Integers, Sequences, FiniteSets, TLC

VARIABLES
    classes,    \* the strategy classes created so far, in creation order;
                \* the identity of a class is its index, 0 is BaseStrategy
    loaded,     \* "robusta_krr.strategies" is in sys.modules
    ret,        \* the last call and what it returned or raised
    mark,       \* history: the number of classes that existed when the first
                \* get_all()/find() returned, -1 before any such call
    settings    \* <<>> or <<obj>>: the object bound by the last successful
                \* StrategySettings(...) call

vars == <<classes, loaded, ret, mark, settings>>

----------------------------------------------------------------------------
(* Bounds *)

MaxUserClasses == 2     \* classes defined outside robusta_krr.strategies
Unit == 2               \* floats are fixed-point: the integer v stands for v / Unit

----------------------------------------------------------------------------
(* Strings are sequences of characters; str.lower() works per character *)

LowerLetters == <<"a", "e", "g", "i", "l", "m", "n", "p", "r", "s">>
UpperLetters == <<"A", "E", "G", "I", "L", "M", "N", "P", "R", "S">>

lower_char(c) ==
    IF \E i \in 1..Len(UpperLetters) : UpperLetters[i] = c
    THEN LowerLetters[CHOOSE i \in 1..Len(UpperLetters) : UpperLetters[i] = c]
    ELSE c

lower(s) == [i \in 1..Len(s) |-> lower_char(s[i])]

\* the names used as inputs
NameSimple      == <<"s", "i", "m", "p", "l", "e">>
NameSimpleTitle == <<"S", "i", "m", "p", "l", "e">>
NameMargin      == <<"m", "a", "r", "g", "i", "n">>
NameMarginTitle == <<"M", "a", "r", "g", "i", "n">>
NameUnknown     == <<"n", "i", "l">>

\* __display_name__ of a class defined by a plugin
DisplayNames == {NameSimple, NameMarginTitle}

\* the name argument of find
CallNames == {NameSimple, NameSimpleTitle, NameMargin, NameUnknown}

----------------------------------------------------------------------------
(* Classes *)

BaseStrategy == 0

NoArg == "-"    \* the base is named bare, without [S]

\* the settings type a plugin strategy is parameterized with
SettingsTypes == {"MarginSettings"}

\* robusta_krr/strategies: executing the package body defines the built-in
\* strategies
DefaultStrategies ==
    << [name |-> NameSimpleTitle, parent |-> BaseStrategy,
        arg |-> "SimpleStrategySettings", module |-> "robusta_krr.strategies"] >>

\* from robusta_krr import strategies: the body runs unless the module is
\* already in sys.modules
import_always(cs, ld) == cs \o DefaultStrategies

import_strategies(cs, ld) == IF ld THEN cs ELSE cs \o DefaultStrategies

\* cls.__subclasses__(): the classes that name cls as their base, in creation
\* order
subclasses_deep(cls, cs) ==
    SelectSeq([i \in 1..Len(cs) |-> i], LAMBDA i : cs[i].parent >= cls)

subclasses_at_load(cls, cs) ==
    LET last == IF \E i \in 1..Len(cs) : cs[i].module = "robusta_krr.strategies"
                THEN CHOOSE i \in 1..Len(cs) :
                        /\ cs[i].module = "robusta_krr.strategies"
                        /\ \A j \in 1..Len(cs) :
                              cs[j].module = "robusta_krr.strategies" => j <= i
                ELSE 0
    IN SelectSeq([i \in 1..Len(cs) |-> i],
                 LAMBDA i : cs[i].parent = cls /\ i <= last)

subclasses(cls, cs) ==
    SelectSeq([i \in 1..Len(cs) |-> i], LAMBDA i : cs[i].parent = cls)

\* a dict: keys in insertion order, val the mapping
EmptyDict == [keys |-> <<>>, val |-> <<>>]

dict_setdefault(d, k, v) ==
    IF k \in DOMAIN d.val THEN d
    ELSE [keys |-> Append(d.keys, k), val |-> (k :> v) @@ d.val]

\* d[k] = v: a new key goes last, an existing key keeps its place and takes
\* the new value
dict_set(d, k, v) ==
    [keys |-> IF k \in DOMAIN d.val THEN d.keys ELSE Append(d.keys, k),
     val  |-> (k :> v) @@ d.val]

key_raw(c) == c.name

\* sub_cls.__display_name__.lower()
key(c) == lower(c.name)

\* {key(sub_cls): sub_cls for sub_cls in subs}
RECURSIVE dict_comp(_, _, _)
dict_comp(d, subs, cs) ==
    IF subs = <<>> THEN d
    ELSE dict_comp(dict_set(d, key(cs[Head(subs)]), Head(subs)), Tail(subs), cs)

\* BaseStrategy.get_all: the value returned when called with the classes cs
\* loaded and sys.modules as ld says
get_all(cls, cs, ld) ==
    dict_comp(EmptyDict, subclasses(cls, import_strategies(cs, ld)),
              import_strategies(cs, ld))

find_case_sensitive(cls, name, cs, ld) ==
    LET strategies == get_all(cls, cs, ld)
    IN IF name \in DOMAIN strategies.val
       THEN [kind |-> "type", type |-> strategies.val[name]]
       ELSE [kind |-> "ValueError", name |-> name, available |-> strategies.keys]

find_short_message(cls, name, cs, ld) ==
    LET strategies == get_all(cls, cs, ld)
    IN IF lower(name) \in DOMAIN strategies.val
       THEN [kind |-> "type", type |-> strategies.val[lower(name)]]
       ELSE [kind |-> "ValueError", name |-> name,
             available |-> IF strategies.keys = <<>> THEN <<>>
                           ELSE Tail(strategies.keys)]

\* BaseStrategy.find: the type found, or the ValueError with the name asked
\* for and the names joined into its message
find(cls, name, cs, ld) ==
    LET strategies == get_all(cls, cs, ld)
    IN IF lower(name) \in DOMAIN strategies.val
       THEN [kind |-> "type", type |-> strategies.val[lower(name)]]
       ELSE [kind |-> "ValueError", name |-> name, available |-> strategies.keys]

\* class BaseStrategy(abc.ABC, Generic[_StrategySettings])
BaseOrigBases ==
    << [origin |-> "ABC", args |-> <<>>],
       [origin |-> "Generic", args |-> <<"_StrategySettings">>] >>

\* cls.__orig_bases__: set on a class whose declaration subscripts its base,
\* otherwise found on the nearest base that has it
RECURSIVE orig_bases(_, _)
orig_bases(cls, cs) ==
    IF cls = BaseStrategy THEN BaseOrigBases
    ELSE IF cs[cls].arg # NoArg
         THEN << [origin |-> "BaseStrategy", args |-> <<cs[cls].arg>>] >>
         ELSE orig_bases(cs[cls].parent, cs)

\* typing.get_args
get_args(alias) == alias.args

get_settings_type_last_base(cls, cs) ==
    LET bases == orig_bases(cls, cs)
        args == get_args(bases[Len(bases)])
    IN IF Len(args) = 0 THEN [kind |-> "IndexError"]
       ELSE [kind |-> "type", type |-> args[1]]

\* BaseStrategy.get_settings_type
get_settings_type(cls, cs) ==
    LET args == get_args(orig_bases(cls, cs)[1])
    IN IF Len(args) = 0 THEN [kind |-> "IndexError"]
       ELSE [kind |-> "type", type |-> args[1]]

----------------------------------------------------------------------------
(* StrategySettings *)

Fields == {"history_duration", "timeframe_duration"}

\* 24 * 7 * 2 hours and 15 minutes
Defaults == [history_duration |-> 24 * 7 * 2 * Unit, timeframe_duration |-> 15 * Unit]

\* ge=1
Minimum == [history_duration |-> 1 * Unit, timeframe_duration |-> 1 * Unit]

\* the values a caller passes: -1, ..., 0.5, 1, ..., 2
ValueInputs == (-Unit)..(2 * Unit)

\* keyword arguments: any subset of the fields
KwargInputs == UNION {[S -> ValueInputs] : S \in SUBSET Fields}

field_value(kwargs, f) == IF f \in DOMAIN kwargs THEN kwargs[f] ELSE Defaults[f]

violations_gt(kwargs) == {f \in Fields : ~(field_value(kwargs, f) > Minimum[f])}

\* the fields that fail their constraint
violations(kwargs) == {f \in Fields : ~(field_value(kwargs, f) >= Minimum[f])}

\* StrategySettings(**kwargs)
new_settings(kwargs) ==
    IF violations(kwargs) # {}
    THEN [kind |-> "ValidationError", fields |-> violations(kwargs)]
    ELSE [kind |-> "ok", obj |-> [f \in Fields |-> field_value(kwargs, f)]]

----------------------------------------------------------------------------
(* Initial state and actions *)

NoCall == [op |-> "none"]

Init ==
    /\ classes = <<>>
    /\ loaded = FALSE
    /\ ret = NoCall
    /\ mark = -1
    /\ settings = <<>>

UserClasses == {i \in 1..Len(classes) : classes[i].module = "plugin"}

\* class X(BaseStrategy[S]), class X(BaseStrategy) or class X(Y) for a loaded
\* strategy class Y, executed in a plugin module
DefineStrategy(name, parent, arg) ==
    /\ Cardinality(UserClasses) < MaxUserClasses
    /\ parent \in 0..Len(classes)
    /\ parent # BaseStrategy => arg = NoArg
    /\ classes' = Append(classes, [name |-> name, parent |-> parent,
                                   arg |-> arg, module |-> "plugin"])
    /\ ret' = [op |-> "class", cls |-> Len(classes) + 1]
    /\ UNCHANGED <<loaded, mark, settings>>

\* import robusta_krr.strategies outside get_all
ImportStrategies ==
    /\ ~loaded
    /\ classes' = import_strategies(classes, loaded)
    /\ loaded' = TRUE
    /\ ret' = [op |-> "import"]
    /\ UNCHANGED <<mark, settings>>

GetAllCall(cls) ==
    /\ classes' = import_strategies(classes, loaded)
    /\ loaded' = TRUE
    /\ ret' = [op |-> "get_all", cls |-> cls, out |-> get_all(cls, classes, loaded)]
    /\ mark' = IF mark = -1 THEN Len(classes') ELSE mark
    /\ UNCHANGED settings

FindCall(cls, name) ==
    /\ classes' = import_strategies(classes, loaded)
    /\ loaded' = TRUE
    /\ ret' = [op |-> "find", cls |-> cls, name |-> name,
               out |-> find(cls, name, classes, loaded)]
    /\ mark' = IF mark = -1 THEN Len(classes') ELSE mark
    /\ UNCHANGED settings

GetSettingsTypeCall(cls) ==
    /\ cls \in 0..Len(classes)
    /\ ret' = [op |-> "get_settings_type", cls |-> cls,
               out |-> get_settings_type(cls, classes)]
    /\ UNCHANGED <<classes, loaded, mark, settings>>

NewSettings(kwargs) ==
    /\ ret' = [op |-> "StrategySettings", kwargs |-> kwargs,
               out |-> new_settings(kwargs)]
    /\ settings' = IF new_settings(kwargs).kind = "ok"
                   THEN <<new_settings(kwargs).obj>> ELSE settings
    /\ UNCHANGED <<classes, loaded, mark>>

\* obj.field = v: pydantic's BaseModel assigns without validating, the model
\* declares neither frozen nor validate_assignment
SetField(f, v) ==
    /\ settings # <<>>
    /\ settings' = <<[settings[1] EXCEPT ![f] = v]>>
    /\ ret' = [op |-> "setattr", field |-> f, value |-> v]
    /\ UNCHANGED <<classes, loaded, mark>>

Next ==
    \/ \E name \in DisplayNames, parent \in 0..(MaxUserClasses + 1),
          arg \in SettingsTypes \cup {NoArg} : DefineStrategy(name, parent, arg)
    \/ ImportStrategies
    \/ GetAllCall(BaseStrategy)
    \/ \E name \in CallNames : FindCall(BaseStrategy, name)
    \/ \E cls \in 0..(MaxUserClasses + 1) : GetSettingsTypeCall(cls)

Spec == Init /\ [][Next]_vars

SettingsNext ==
    \/ \E kwargs \in KwargInputs : NewSettings(kwargs)
    \/ \E f \in Fields, v \in ValueInputs : SetField(f, v)

SettingsSpec == Init /\ [][SettingsNext]_vars

----------------------------------------------------------------------------
(* Vocabulary of the properties *)

\* the values of a sequence
Range(q) == {q[i] : i \in 1..Len(q)}

\* the loaded classes whose base is BaseStrategy itself
Direct == {i \in 1..Len(classes) : classes[i].parent = BaseStrategy}

\* the loaded classes that reach BaseStrategy through another class
Indirect == {i \in 1..Len(classes) : classes[i].parent # BaseStrategy}

\* x and y are the two cases of one letter
CasePair(x, y) ==
    \E i \in 1..Len(LowerLetters) : {x, y} = {LowerLetters[i], UpperLetters[i]}

\* a and b differ at most in letter case
SameUpToCase(a, b) ==
    /\ Len(a) = Len(b)
    /\ \A i \in 1..Len(a) : a[i] = b[i] \/ CasePair(a[i], b[i])

\* a direct subclass created after T has T's name up to case
Shadowed(T) ==
    \E U \in Direct : U > T /\ SameUpToCase(classes[U].name, classes[T].name)

\* what BaseStrategy.get_all() and BaseStrategy.find(n) return when called now
GetAllNow == get_all(BaseStrategy, classes, loaded)
FindNow(n) == find(BaseStrategy, n, classes, loaded)

\* two results of find are both failures or both the same type
Agree(a, b) ==
    \/ a.kind = "ValueError" /\ b.kind = "ValueError"
    \/ a.kind = "type" /\ b.kind = "type" /\ a.type = b.type

\* the settings type bound by the nearest declaration that subscripts
\* BaseStrategy, NoArg when no declaration up to BaseStrategy does
RECURSIVE Binding(_)
Binding(cls) ==
    IF cls = BaseStrategy THEN NoArg
    ELSE IF classes[cls].arg # NoArg THEN classes[cls].arg
         ELSE Binding(classes[cls].parent)

----------------------------------------------------------------------------
(* Properties of the registry, checked under Spec *)

\* C1 as stated: after a find call whose argument is the lower-cased display
\* name of a loaded direct subclass T of BaseStrategy, the call returned T.
C1_RoundTripAll ==
    ret.op = "find" =>
        \A T \in Direct :
            ret.name = lower(classes[T].name) =>
                ret.out = [kind |-> "type", type |-> T]

\* C1 amended: after a find call whose argument is the lower-cased display
\* name of a loaded direct subclass T, the call returned T, provided no direct
\* subclass created after T (a built-in one created by the load the call
\* triggers included) has the same lower-cased display name.
C1_RoundTrip ==
    ret.op = "find" =>
        \A T \in Direct :
            (ret.name = lower(classes[T].name) /\ ~Shadowed(T)) =>
                ret.out = [kind |-> "type", type |-> T]

\* find returned a plugin strategy whose display name is not lower case,
\* looked up by its lower-cased name, with another strategy registered
C1_Witness ==
    /\ ret.op = "find"
    /\ ret.out.kind = "type"
    /\ classes[ret.out.type].module = "plugin"
    /\ ret.name = lower(classes[ret.out.type].name)
    /\ ret.name # classes[ret.out.type].name
    /\ Cardinality(Direct) >= 2

\* C2: a find call whose lower-cased argument is not a key of get_all()
\* raised the error, and the names in the error message are exactly the keys
\* of get_all(), each once.
C2_UnknownName ==
    (ret.op = "find" /\ lower(ret.name) \notin DOMAIN GetAllNow.val) =>
        /\ ret.out.kind = "ValueError"
        /\ ret.out.name = ret.name
        /\ Range(ret.out.available) = DOMAIN GetAllNow.val
        /\ Range(ret.out.available) = {lower(classes[T].name) : T \in Direct}
        /\ Len(ret.out.available) = Cardinality(DOMAIN GetAllNow.val)

\* find failed with two names to list
C2_Witness ==
    /\ ret.op = "find"
    /\ ret.out.kind = "ValueError"
    /\ Len(ret.out.available) >= 2

\* C3: a find call and a find call with any name of the same letters in other
\* case both fail or both return the same type; with "simple" and "margin"
\* registered, find("Simple") returned the type registered as "simple".
C3_CaseInsensitive ==
    /\ \A n1, n2 \in CallNames :
          SameUpToCase(n1, n2) => Agree(FindNow(n1), FindNow(n2))
    /\ ret.op = "find" =>
          \A n \in CallNames : SameUpToCase(ret.name, n) => Agree(ret.out, FindNow(n))
    /\ (/\ ret.op = "find"
        /\ ret.name = NameSimpleTitle
        /\ {NameSimple, NameMargin} \subseteq DOMAIN GetAllNow.val) =>
          /\ ret.out.kind = "type"
          /\ ret.out.type \in Direct
          /\ SameUpToCase(classes[ret.out.type].name, NameSimple)
          /\ ret.out.type = GetAllNow.val[NameSimple]

\* find("Simple") returned a type with "simple" and "margin" registered
C3_Witness ==
    /\ ret.op = "find"
    /\ ret.name = NameSimpleTitle
    /\ {NameSimple, NameMargin} \subseteq DOMAIN GetAllNow.val
    /\ ret.out.kind = "type"

\* C5 as stated: get_settings_type on a class declared as BaseStrategy[S]
\* returned S, and on a class whose declaration subscripts nothing it failed.
C5_DeclaredOnly ==
    (ret.op = "get_settings_type" /\ ret.cls # BaseStrategy) =>
        IF classes[ret.cls].arg # NoArg
        THEN ret.out = [kind |-> "type", type |-> classes[ret.cls].arg]
        ELSE ret.out.kind = "IndexError"

\* C5 amended: get_settings_type on a class declared as BaseStrategy[S]
\* returned S; on a class declared as a plain subclass of a strategy class it
\* returned what that class binds; it failed exactly when no declaration from
\* the class up to BaseStrategy subscripts the base.
C5_SettingsType ==
    ret.op = "get_settings_type" =>
        /\ (ret.cls # BaseStrategy /\ classes[ret.cls].arg # NoArg) =>
              ret.out = [kind |-> "type", type |-> classes[ret.cls].arg]
        /\ IF Binding(ret.cls) = NoArg
           THEN ret.out.kind = "IndexError"
           ELSE ret.out = [kind |-> "type", type |-> Binding(ret.cls)]

\* get_settings_type failed on a plugin class declared as class X(BaseStrategy)
C5_Witness ==
    /\ ret.op = "get_settings_type"
    /\ ret.cls # BaseStrategy
    /\ classes[ret.cls].parent = BaseStrategy
    /\ classes[ret.cls].arg = NoArg
    /\ ret.out.kind = "IndexError"
    /\ \E T \in Direct : classes[T].arg = "MarginSettings"

\* C6 as stated: the values of the mapping get_all returned are exactly the
\* loaded direct subclasses.
C6_ValuesAllDirect ==
    ret.op = "get_all" =>
        {ret.out.val[k] : k \in DOMAIN ret.out.val} = Direct

\* C6 amended: the keys of the mapping get_all returned are exactly the
\* lower-cased display names of the loaded direct subclasses, each value is a
\* direct subclass stored under its own lower-cased display name, an indirect
\* subclass is never a value, and the values are exactly the direct
\* subclasses that no later-created direct subclass shares its lower-cased
\* display name with.
C6_DirectOnly ==
    ret.op = "get_all" =>
        /\ DOMAIN ret.out.val = {lower(classes[T].name) : T \in Direct}
        /\ \A k \in DOMAIN ret.out.val :
              /\ ret.out.val[k] \in Direct
              /\ ret.out.val[k] \notin Indirect
              /\ lower(classes[ret.out.val[k]].name) = k
        /\ {ret.out.val[k] : k \in DOMAIN ret.out.val}
              = {T \in Direct : ~Shadowed(T)}

\* get_all returned with two direct subclasses and an indirect one loaded
C6_Witness ==
    /\ ret.op = "get_all"
    /\ Cardinality(Direct) >= 2
    /\ Indirect # {}
    /\ Cardinality(DOMAIN ret.out.val) >= 2

\* the direct subclasses whose lower-cased display name is k
Named(k) == {T \in Direct : lower(classes[T].name) = k}

\* the last created class of a set
Latest(S) == CHOOSE T \in S : \A U \in S : U <= T

\* C8: when two direct subclasses have the same lower-cased display name,
\* get_all returned a mapping (no error) with one entry for the name, holding
\* the last created of them, and find of the name returned that class.
C8_Collision ==
    \A k \in {lower(n) : n \in DisplayNames} :
        Cardinality(Named(k)) >= 2 =>
            /\ ret.op = "get_all" =>
                  /\ k \in DOMAIN ret.out.val
                  /\ Cardinality({p \in 1..Len(ret.out.keys) : ret.out.keys[p] = k}) = 1
                  /\ ret.out.val[k] = Latest(Named(k))
            /\ (ret.op = "find" /\ lower(ret.name) = k) =>
                  ret.out = [kind |-> "type", type |-> Latest(Named(k))]

\* find returned the later of two classes of one lower-cased display name
C8_Witness ==
    /\ ret.op = "find"
    /\ ret.out.kind = "type"
    /\ \E T \in Direct :
          /\ T < ret.out.type
          /\ lower(classes[T].name) = lower(ret.name)
          /\ classes[T].name # classes[ret.out.type].name

\* the direct subclasses created after a get_all or find call had returned
Late == {T \in Direct : mark >= 0 /\ T > mark}

\* C9 as stated: a strategy defined after an earlier get_all call is a value
\* of the mapping the next get_all call returns and is what the next find of
\* its name returns.
C9_LateVisibleAll ==
    \A T \in Late :
        /\ ret.op = "get_all" =>
              T \in {ret.out.val[k] : k \in DOMAIN ret.out.val}
        /\ (ret.op = "find" /\ lower(ret.name) = lower(classes[T].name)) =>
              ret.out = [kind |-> "type", type |-> T]

\* C9 amended: the name of a strategy defined after an earlier get_all call
\* is a key of the mapping the next get_all call returns and find of the name
\* returns a type; the value and the type found are that strategy unless a
\* direct subclass created after it has the same lower-cased display name.
C9_LateVisible ==
    \A T \in Late :
        /\ ret.op = "get_all" =>
              /\ lower(classes[T].name) \in DOMAIN ret.out.val
              /\ ~Shadowed(T) => ret.out.val[lower(classes[T].name)] = T
        /\ (ret.op = "find" /\ lower(ret.name) = lower(classes[T].name)) =>
              /\ ret.out.kind = "type"
              /\ ~Shadowed(T) => ret.out.type = T

\* get_all returned a strategy defined after an earlier call
C9_Witness ==
    /\ ret.op = "get_all"
    /\ \E T \in Late :
          /\ classes[T].module = "plugin"
          /\ ret.out.val[lower(classes[T].name)] = T

\* the classes created by the package body of robusta_krr.strategies
BuiltIn == {i \in 1..Len(classes) : classes[i].module = "robusta_krr.strategies"}

\* C10: in the state a get_all or find call leaves, the built-in strategies
\* are loaded and their names are keys of the mapping; the package body has
\* run at most once; a get_all call right after a get_all call returns the
\* same mapping.
C10_LoadOnce ==
    [][ /\ ret'.op \in {"get_all", "find"} =>
              /\ loaded'
              /\ Range(DefaultStrategies) \subseteq Range(classes')
        /\ ret'.op = "get_all" =>
              \A i \in 1..Len(DefaultStrategies) :
                  lower(DefaultStrategies[i].name) \in DOMAIN ret'.out.val
        /\ Cardinality(BuiltIn') <= Len(DefaultStrategies)
        /\ loaded => classes' \in {classes, Append(classes, classes'[Len(classes')])}
        /\ loaded => BuiltIn' = BuiltIn
        /\ (ret.op = "get_all" /\ ret'.op = "get_all") => ret'.out = ret.out
      ]_vars

\* get_all returned after an earlier call and later definitions, the
\* built-in strategy loaded once, by a call, after a plugin strategy
C10_Witness ==
    /\ ret.op = "get_all"
    /\ mark >= 0
    /\ Len(classes) > mark
    /\ Cardinality(BuiltIn) = 1
    /\ \E i \in BuiltIn : i > 1

----------------------------------------------------------------------------
(* Properties of StrategySettings, checked under SettingsSpec *)

\* the value a construction call gives a field: the argument, or 336 hours
\* and 15 minutes
Given(kwargs, f) ==
    IF f \in DOMAIN kwargs THEN kwargs[f]
    ELSE IF f = "history_duration" THEN 336 * Unit ELSE 15 * Unit

\* C4: a construction with history_duration < 1 or timeframe_duration < 1
\* raised the validation error and made no object; a construction with both
\* values >= 1, given or defaulted to 336 and 15, made the object with those
\* values.
C4_Bounds ==
    ret.op = "StrategySettings" =>
        IF \E f \in Fields : Given(ret.kwargs, f) < 1 * Unit
        THEN /\ ret.out.kind = "ValidationError"
             /\ "obj" \notin DOMAIN ret.out
             /\ ret.out.fields = {f \in Fields : Given(ret.kwargs, f) < 1 * Unit}
        ELSE /\ ret.out.kind = "ok"
             /\ ret.out.obj = [f \in Fields |-> Given(ret.kwargs, f)]
             /\ settings = <<ret.out.obj>>

\* a construction with timeframe_duration exactly 1 and history_duration
\* omitted succeeded
C4_Witness ==
    /\ ret.op = "StrategySettings"
    /\ DOMAIN ret.kwargs = {"timeframe_duration"}
    /\ ret.kwargs.timeframe_duration = 1 * Unit
    /\ ret.out.kind = "ok"
    /\ settings[1].history_duration = 336 * Unit

\* C7: once constructed, a settings object has both fields >= 1.
C7_Immutable ==
    settings # <<>> =>
        \A f \in Fields : settings[1][f] >= 1 * Unit

====
